---- MODULE Spec2Model ----
(***************************************************************************)
(* Workflow metrics recorder of pkg/diagnostics.                           *)
(*                                                                         *)
(* Two revisions of the component are in the source tree:                  *)
(*   workflow_monitoring.go  Init(appID, namespace), WorkflowOperationEvent *)
(*                           and ExecutionEvent, four measures;            *)
(*   workflow_metrics.go     Init(appID) only, eight measures.             *)
(* Both register their views in the process-wide view registry of the      *)
(* stats backend.  The startup goroutine calls the Init functions one      *)
(* after the other; request goroutines call the event functions at any     *)
(* time, with no synchronisation against Init.  Init and the event         *)
(* functions are therefore split at their loads and stores of the shared   *)
(* fields, and the stores of Init, which race with the loads, may become   *)
(* visible in any order.                                                   *)
(***************************************************************************)
EXTENDS Integers, Sequences, FiniteSets, TLC

VARIABLES
    w,          \* *workflowMetrics of workflow_monitoring.go: appID, enabled, namespace
    wm,         \* *workflowMetrics of workflow_metrics.go: appID, enabled
    views,      \* the view registry of the stats backend
    recorded,   \* the observations the backend has received, in order
    init,       \* frame of the startup goroutine inside an Init call
    initResult, \* arguments and return value of the last monitoring Init that returned
    metricsResult, \* return value of the last workflow_metrics.go Init that returned
    ev,         \* frame of a request goroutine inside an event call
    issued,     \* history: event calls that passed the IsEnabled check, per kind
    nInits,     \* number of Init calls made
    nCalls,     \* number of event calls made
    panicked    \* "none", or the function in which the process panicked

vars == <<w, wm, views, recorded, init, initResult, metricsResult, ev, issued,
          nInits, nCalls, panicked>>

----------------------------------------------------------------------------
(* Bounds of the model *)

MaxInits == 2
MaxCalls == 1

\* the arguments the calls are made with
InitArgs == {<<"a1", "ns1">>, <<"a2", "ns2">>}
MetricsInitArgs == {"a1"}
ElapsedValues == {-1, 0, 5}
Receivers == {"nil", "w"}

----------------------------------------------------------------------------
(* Constants of the package *)

StatusSuccess == "success"
StatusFailed == "failed"
CreateWorkflow == "create_workflow"
GetWorkflow == "get_workflow"
Activity == "activity"
Workflow == "workflow"
ComponentName == "dapr"

\* <<operation, component, status>> of the WorkflowOperationEvent calls made
OperationCalls == {<<CreateWorkflow, ComponentName, StatusSuccess>>,
                   <<GetWorkflow, ComponentName, StatusFailed>>}
\* <<component, executionType, status>> of the ExecutionEvent calls made
ExecutionCalls == {<<ComponentName, Activity, StatusFailed>>,
                   <<ComponentName, Workflow, StatusSuccess>>}

appIDKey == "app_id"
componentKey == "component"
namespaceKey == "namespace"
operationKey == "operation"
statusKey == "status"
executionTypeKey == "execution_type"
elapsedKey == "elapsed"
reminderTypeKey == "reminder_type"
isRetryableKey == "is_retryable"

Count == "count"
defaultLatencyDistribution == "latency_distribution"

\* measure names of workflow_monitoring.go
workflowOperationCount == "runtime/workflow/operation/count"
workflowOperationLatency == "runtime/workflow/operation/latency"
workflowExecutionCount == "runtime/workflow/execution/count"
workflowExecutionLatency == "runtime/workflow/execution/latency"

\* measure names of workflow_metrics.go
workflowOperationsTotal == "runtime/workflow/operations/total"
workflowOperationsFailedTotal == "runtime/workflow/operations/failed_total"
workflowOperationsLatency == "runtime/workflow/operations/latency"
workflowRemindersTotal == "runtime/workflows/reminders/total"
workflowExecutionTotal == "runtime/workflow/execution/total"
workflowExecutionFailedTotal == "runtime/workflow/execution/failed_total"
workflowSchedulingLatency == "runtime/workflow/scheduling/latency"

----------------------------------------------------------------------------
(* The stats backend and the helpers of pkg/diagnostics/utils *)

\* diagUtils.NewMeasureView: a view named after its measure
NewMeasureView(measure, keys, aggregation) ==
    [name |-> measure, keys |-> keys, agg |-> aggregation]

\* view.Register: a view whose name is registered with a different definition
\* is refused, the others are registered; an equal view is left as it is
RegisterViews(reg, vs) ==
    reg \cup {v \in vs : ~\E x \in reg : x.name = v.name}

\* view.Register returns an error when it refused a view
RegisterFails(reg, vs) ==
    \E v \in vs : \E x \in reg : x.name = v.name /\ x # v

\* diagUtils.WithTags: one tag per key/value pair, a later pair replacing an
\* earlier one with the same key
WithTags(pairs) ==
    [k \in {pairs[i][1] : i \in DOMAIN pairs} |->
        LET last == CHOOSE i \in DOMAIN pairs :
                        /\ pairs[i][1] = k
                        /\ \A j \in DOMAIN pairs : pairs[j][1] = k => j <= i
        IN  pairs[last][2]]

\* stats.RecordWithTags with one measurement
RecordWithTags(backend, measure, tags, value) ==
    Append(backend, [measure |-> measure, tags |-> tags, value |-> value])

----------------------------------------------------------------------------
(* The recorder objects *)

\* newWorkflowMetrics of workflow_monitoring.go: the fields start at their zero values
newWorkflowMetrics == [appID |-> "", enabled |-> FALSE, namespace |-> ""]

\* newWorkflowMetrics of workflow_metrics.go
newWorkflowMetricsLegacy == [appID |-> "", enabled |-> FALSE]

IdleInit == [pc |-> "idle", variant |-> "none", appID |-> "", namespace |-> "", pending |-> {}]
IdleEv == [pc |-> "idle", kind |-> "none", recv |-> "nil", name |-> "", component |-> "",
           status |-> "", elapsed |-> 0]
NoResult == [err |-> "none", appID |-> "", namespace |-> ""]
NoIssued == [calls |-> 0, positive |-> 0]

\* IsEnabled without the nil check: a nil receiver passes and is dereferenced later
IsEnabledNoNilCheck(recv) == recv = "nil" \/ w.enabled

\* IsEnabled: w != nil && w.enabled
IsEnabled(recv) == recv # "nil" /\ w.enabled

\* the operation latency view keyed by elapsed, as workflow_metrics.go keys it
WorkflowViewsElapsedKey ==
    { NewMeasureView(workflowOperationCount,
          {appIDKey, componentKey, namespaceKey, operationKey, statusKey}, Count),
      NewMeasureView(workflowOperationLatency,
          {appIDKey, componentKey, namespaceKey, operationKey, statusKey, elapsedKey},
          defaultLatencyDistribution),
      NewMeasureView(workflowExecutionCount,
          {appIDKey, componentKey, namespaceKey, executionTypeKey, statusKey}, Count),
      NewMeasureView(workflowExecutionLatency,
          {appIDKey, componentKey, namespaceKey, executionTypeKey, statusKey},
          defaultLatencyDistribution) }

\* the views Init of workflow_monitoring.go passes to view.Register
WorkflowViews ==
    { NewMeasureView(workflowOperationCount,
          {appIDKey, componentKey, namespaceKey, operationKey, statusKey}, Count),
      NewMeasureView(workflowOperationLatency,
          {appIDKey, componentKey, namespaceKey, operationKey, statusKey},
          defaultLatencyDistribution),
      NewMeasureView(workflowExecutionCount,
          {appIDKey, componentKey, namespaceKey, executionTypeKey, statusKey}, Count),
      NewMeasureView(workflowExecutionLatency,
          {appIDKey, componentKey, namespaceKey, executionTypeKey, statusKey},
          defaultLatencyDistribution) }

\* the views Init of workflow_metrics.go passes to view.Register
MetricsViews ==
    { NewMeasureView(workflowOperationsTotal, {appIDKey, operationKey}, Count),
      NewMeasureView(workflowOperationsFailedTotal, {appIDKey, operationKey}, Count),
      NewMeasureView(workflowOperationsLatency, {appIDKey, elapsedKey},
          defaultLatencyDistribution),
      NewMeasureView(workflowRemindersTotal, {appIDKey, reminderTypeKey}, Count),
      NewMeasureView(workflowExecutionTotal, {appIDKey, executionTypeKey}, Count),
      NewMeasureView(workflowExecutionFailedTotal,
          {appIDKey, executionTypeKey, isRetryableKey}, Count),
      NewMeasureView(workflowExecutionLatency, {appIDKey, executionTypeKey, statusKey},
          defaultLatencyDistribution),
      NewMeasureView(workflowSchedulingLatency, {appIDKey, executionTypeKey},
          defaultLatencyDistribution) }

\* Init flipping enabled instead of setting it
InitValueToggle(field) ==
    CASE field = "appID" -> init.appID
      [] field = "enabled" -> ~w.enabled
      [] field = "namespace" -> init.namespace

\* the value Init of workflow_monitoring.go stores in a field
InitValue(field) ==
    CASE field = "appID" -> init.appID
      [] field = "enabled" -> TRUE
      [] field = "namespace" -> init.namespace

\* the value Init of workflow_metrics.go stores in a field
MetricsInitValue(field) ==
    CASE field = "appID" -> init.appID
      [] field = "enabled" -> TRUE

\* WorkflowOperationEvent with the operation and status arguments exchanged
OperationTagsSwapped(operation, component, status) ==
    WithTags(<< <<appIDKey, w.appID>>, <<componentKey, component>>,
                <<namespaceKey, w.namespace>>, <<operationKey, status>>,
                <<statusKey, operation>> >>)

\* the tags WorkflowOperationEvent records with
OperationTags(operation, component, status) ==
    WithTags(<< <<appIDKey, w.appID>>, <<componentKey, component>>,
                <<namespaceKey, w.namespace>>, <<operationKey, operation>>,
                <<statusKey, status>> >>)

\* ExecutionEvent with the component and executionType arguments exchanged
ExecutionTagsSwapped(component, executionType, status) ==
    WithTags(<< <<appIDKey, w.appID>>, <<componentKey, executionType>>,
                <<namespaceKey, w.namespace>>, <<executionTypeKey, component>>,
                <<statusKey, status>> >>)

\* the tags ExecutionEvent records with
ExecutionTags(component, executionType, status) ==
    WithTags(<< <<appIDKey, w.appID>>, <<componentKey, component>>,
                <<namespaceKey, w.namespace>>, <<executionTypeKey, executionType>>,
                <<statusKey, status>> >>)

\* `if elapsed >= 0`
LatencyMeasuredNonNegative(elapsed) == elapsed >= 0

\* `if elapsed > 0` of both event functions
LatencyMeasured(elapsed) == elapsed > 0

----------------------------------------------------------------------------
Init ==
    /\ w = newWorkflowMetrics
    /\ wm = newWorkflowMetricsLegacy
    /\ views = {}
    /\ recorded = <<>>
    /\ init = IdleInit
    /\ initResult = NoResult
    /\ metricsResult = "none"
    /\ ev = IdleEv
    /\ issued = [operation |-> NoIssued, execution |-> NoIssued]
    /\ nInits = 0
    /\ nCalls = 0
    /\ panicked = "none"

----------------------------------------------------------------------------
(* Init of workflow_monitoring.go *)

\* the call: a nil receiver panics at the first store
InitCall(recv, appID, namespace) ==
    /\ panicked = "none"
    /\ init.pc = "idle"
    /\ nInits < MaxInits
    /\ nInits' = nInits + 1
    /\ IF recv = "nil"
       THEN /\ panicked' = "Init"
            /\ UNCHANGED init
       ELSE /\ init' = [pc |-> "store", variant |-> "monitoring", appID |-> appID,
                        namespace |-> namespace,
                        pending |-> {"appID", "enabled", "namespace"}]
            /\ UNCHANGED panicked
    /\ UNCHANGED <<w, wm, views, recorded, initResult, metricsResult, ev, issued, nCalls>>

\* w.appID = appID; w.enabled = true; w.namespace = namespace: plain stores, read
\* by the request goroutines without synchronisation
InitStore(field) ==
    /\ panicked = "none"
    /\ init.pc = "store"
    /\ init.variant = "monitoring"
    /\ field \in init.pending
    /\ w' = [w EXCEPT ![field] = InitValue(field)]
    /\ init' = [init EXCEPT !.pending = @ \ {field}]
    /\ UNCHANGED <<wm, views, recorded, initResult, metricsResult, ev, issued,
                   nInits, nCalls, panicked>>

\* return view.Register(...)
InitRegister ==
    /\ panicked = "none"
    /\ init.pc = "store"
    /\ init.variant = "monitoring"
    /\ init.pending = {}
    /\ views' = RegisterViews(views, WorkflowViews)
    /\ initResult' = [err |-> IF RegisterFails(views, WorkflowViews) THEN "err" ELSE "nil",
                      appID |-> init.appID, namespace |-> init.namespace]
    /\ init' = IdleInit
    /\ UNCHANGED <<w, wm, recorded, metricsResult, ev, issued, nInits, nCalls, panicked>>

----------------------------------------------------------------------------
(* Init of workflow_metrics.go *)

MetricsInitCall(recv, appID) ==
    /\ panicked = "none"
    /\ init.pc = "idle"
    /\ nInits < MaxInits
    /\ nInits' = nInits + 1
    /\ IF recv = "nil"
       THEN /\ panicked' = "Init"
            /\ UNCHANGED init
       ELSE /\ init' = [pc |-> "store", variant |-> "metrics", appID |-> appID,
                        namespace |-> "", pending |-> {"appID", "enabled"}]
            /\ UNCHANGED panicked
    /\ UNCHANGED <<w, wm, views, recorded, initResult, metricsResult, ev, issued, nCalls>>

MetricsInitStore(field) ==
    /\ panicked = "none"
    /\ init.pc = "store"
    /\ init.variant = "metrics"
    /\ field \in init.pending
    /\ wm' = [wm EXCEPT ![field] = MetricsInitValue(field)]
    /\ init' = [init EXCEPT !.pending = @ \ {field}]
    /\ UNCHANGED <<w, views, recorded, initResult, metricsResult, ev, issued,
                   nInits, nCalls, panicked>>

MetricsInitRegister ==
    /\ panicked = "none"
    /\ init.pc = "store"
    /\ init.variant = "metrics"
    /\ init.pending = {}
    /\ views' = RegisterViews(views, MetricsViews)
    /\ metricsResult' = IF RegisterFails(views, MetricsViews) THEN "err" ELSE "nil"
    /\ init' = IdleInit
    /\ UNCHANGED <<w, wm, recorded, initResult, ev, issued, nInits, nCalls, panicked>>

----------------------------------------------------------------------------
(* WorkflowOperationEvent *)

\* the call and its `if !w.IsEnabled() { return }`
WorkflowOperationEvent(recv, operation, component, status, elapsed) ==
    /\ panicked = "none"
    /\ ev.pc = "idle"
    /\ nCalls < MaxCalls
    /\ nCalls' = nCalls + 1
    /\ IF ~IsEnabled(recv)
       THEN UNCHANGED <<ev, issued>>
       ELSE /\ ev' = [pc |-> "count", kind |-> "operation", recv |-> recv,
                      name |-> operation, component |-> component, status |-> status,
                      elapsed |-> elapsed]
            /\ issued' = [issued EXCEPT
                   !.operation.calls = @ + 1,
                   !.operation.positive = @ + (IF elapsed > 0 THEN 1 ELSE 0)]
    /\ UNCHANGED <<w, wm, views, recorded, init, initResult, metricsResult, nInits, panicked>>

\* stats.RecordWithTags(..., w.workflowOperationCount.M(1)); w is dereferenced here
WorkflowOperationEventCount ==
    /\ panicked = "none"
    /\ ev.pc = "count"
    /\ ev.kind = "operation"
    /\ IF ev.recv = "nil"
       THEN /\ panicked' = "WorkflowOperationEvent"
            /\ UNCHANGED <<recorded, ev>>
       ELSE /\ recorded' = RecordWithTags(recorded, workflowOperationCount,
                               OperationTags(ev.name, ev.component, ev.status), 1)
            /\ ev' = IF LatencyMeasured(ev.elapsed) THEN [ev EXCEPT !.pc = "latency"]
                     ELSE IdleEv
            /\ UNCHANGED panicked
    /\ UNCHANGED <<w, wm, views, init, initResult, metricsResult, issued, nInits, nCalls>>

\* stats.RecordWithTags(..., w.workflowOperationLatency.M(elapsed))
WorkflowOperationEventLatency ==
    /\ panicked = "none"
    /\ ev.pc = "latency"
    /\ ev.kind = "operation"
    /\ recorded' = RecordWithTags(recorded, workflowOperationLatency,
                       OperationTags(ev.name, ev.component, ev.status), ev.elapsed)
    /\ ev' = IdleEv
    /\ UNCHANGED <<w, wm, views, init, initResult, metricsResult, issued, nInits, nCalls,
                   panicked>>

----------------------------------------------------------------------------
(* ExecutionEvent *)

ExecutionEvent(recv, component, executionType, status, elapsed) ==
    /\ panicked = "none"
    /\ ev.pc = "idle"
    /\ nCalls < MaxCalls
    /\ nCalls' = nCalls + 1
    /\ IF ~IsEnabled(recv)
       THEN UNCHANGED <<ev, issued>>
       ELSE /\ ev' = [pc |-> "count", kind |-> "execution", recv |-> recv,
                      name |-> executionType, component |-> component, status |-> status,
                      elapsed |-> elapsed]
            /\ issued' = [issued EXCEPT
                   !.execution.calls = @ + 1,
                   !.execution.positive = @ + (IF elapsed > 0 THEN 1 ELSE 0)]
    /\ UNCHANGED <<w, wm, views, recorded, init, initResult, metricsResult, nInits, panicked>>

ExecutionEventCount ==
    /\ panicked = "none"
    /\ ev.pc = "count"
    /\ ev.kind = "execution"
    /\ IF ev.recv = "nil"
       THEN /\ panicked' = "ExecutionEvent"
            /\ UNCHANGED <<recorded, ev>>
       ELSE /\ recorded' = RecordWithTags(recorded, workflowExecutionCount,
                               ExecutionTags(ev.component, ev.name, ev.status), 1)
            /\ ev' = IF LatencyMeasured(ev.elapsed) THEN [ev EXCEPT !.pc = "latency"]
                     ELSE IdleEv
            /\ UNCHANGED panicked
    /\ UNCHANGED <<w, wm, views, init, initResult, metricsResult, issued, nInits, nCalls>>

ExecutionEventLatency ==
    /\ panicked = "none"
    /\ ev.pc = "latency"
    /\ ev.kind = "execution"
    /\ recorded' = RecordWithTags(recorded, workflowExecutionLatency,
                       ExecutionTags(ev.component, ev.name, ev.status), ev.elapsed)
    /\ ev' = IdleEv
    /\ UNCHANGED <<w, wm, views, init, initResult, metricsResult, issued, nInits, nCalls,
                   panicked>>

----------------------------------------------------------------------------
Next ==
    \/ \E recv \in Receivers, a \in InitArgs : InitCall(recv, a[1], a[2])
    \/ \E f \in {"appID", "enabled", "namespace"} : InitStore(f)
    \/ InitRegister
    \/ \E recv \in Receivers, a \in MetricsInitArgs : MetricsInitCall(recv, a)
    \/ \E f \in {"appID", "enabled"} : MetricsInitStore(f)
    \/ MetricsInitRegister
    \/ \E recv \in Receivers, c \in OperationCalls, e \in ElapsedValues :
          WorkflowOperationEvent(recv, c[1], c[2], c[3], e)
    \/ WorkflowOperationEventCount
    \/ WorkflowOperationEventLatency
    \/ \E recv \in Receivers, c \in ExecutionCalls, e \in ElapsedValues :
          ExecutionEvent(recv, c[1], c[2], c[3], e)
    \/ ExecutionEventCount
    \/ ExecutionEventLatency

Spec == Init /\ [][Next]_vars

----------------------------------------------------------------------------
(* Vocabulary of the properties *)

\* the observations of a measure the backend has received
ObsOf(measure) == {i \in DOMAIN recorded : recorded[i].measure = measure}
NumObs(measure) == Cardinality(ObsOf(measure))

RECURSIVE SumValues(_)
SumValues(I) ==
    IF I = {} THEN 0
    ELSE LET i == CHOOSE j \in I : TRUE IN recorded[i].value + SumValues(I \ {i})

\* the total a count view shows for a measure
CounterTotal(measure) == SumValues(ObsOf(measure))

\* no Init call is running and the last monitoring Init returned nil
Settled == init.pc = "idle" /\ initResult.err = "nil"

\* an event call that has passed the IsEnabled check and has not yet recorded
InFlightCount(kind) == IF ev.kind = kind /\ ev.pc = "count" THEN 1 ELSE 0
InFlightLatency(kind) ==
    IF ev.kind = kind /\ ev.pc \in {"count", "latency"} /\ ev.elapsed > 0 THEN 1 ELSE 0

\* the observation the last step added, when it added exactly one
AddedOne == Len(recorded') = Len(recorded) + 1 /\ SubSeq(recorded', 1, Len(recorded)) = recorded
Added == recorded'[Len(recorded')]

\* the tags the call in flight is to record with once Init(appID, namespace) succeeded
ExpectedOperationTags ==
    [k \in {"app_id", "component", "namespace", "operation", "status"} |->
        CASE k = "app_id" -> initResult.appID
          [] k = "component" -> ev.component
          [] k = "namespace" -> initResult.namespace
          [] k = "operation" -> ev.name
          [] k = "status" -> ev.status]

ExpectedExecutionTags ==
    [k \in {"app_id", "component", "namespace", "execution_type", "status"} |->
        CASE k = "app_id" -> initResult.appID
          [] k = "component" -> ev.component
          [] k = "namespace" -> initResult.namespace
          [] k = "execution_type" -> ev.name
          [] k = "status" -> ev.status]

----------------------------------------------------------------------------
(* Properties *)

\* C1: whenever an Init call has returned a registration error, the recorder it
\* was called on is disabled (enabled = false), so IsEnabled() is false afterwards.
C1_InitErrorLeavesDisabled ==
    initResult.err = "err" => ~w.enabled

\* C2: an event call made while IsEnabled() is false (the recorder is nil, or its
\* enabled field is false) records nothing and does not panic: no event function
\* panics, nothing is recorded while the recorder is disabled, a call gets past the
\* check only on a non-nil enabled recorder, and only such a call records.
C2_DisabledCallsAreNoOps ==
    /\ [](panicked \notin {"WorkflowOperationEvent", "ExecutionEvent"})
    /\ [](~w.enabled => recorded = <<>>)
    /\ [](ev.pc # "idle" => (ev.recv # "nil" /\ w.enabled))
    /\ [][recorded' # recorded => ev.pc # "idle"]_vars

\* a call was made on a disabled recorder, and nothing was recorded and nothing panicked
C2_Witness ==
    /\ nCalls >= 1
    /\ ~w.enabled
    /\ recorded = <<>>
    /\ ev.pc = "idle"
    /\ panicked = "none"

\* C3: every observation carries the appID and namespace of one Init call, both
\* from the same call: an event call never sees enabled = true together with an
\* appID or namespace that Init has not yet published.
C3_NoTornRead ==
    \A i \in DOMAIN recorded :
        <<recorded[i].tags[appIDKey], recorded[i].tags[namespaceKey]>> \in InitArgs

\* C4: in every reachable state, enabled = true implies that appID and namespace
\* hold the arguments of an Init call and that all views of the recorder are registered.
C4_EnabledImpliesInitialized ==
    /\ w.enabled => (<<w.appID, w.namespace>> \in InitArgs /\ WorkflowViews \subseteq views)
    /\ wm.enabled => (wm.appID \in MetricsInitArgs /\ MetricsViews \subseteq views)

\* C5: once Init(appID, namespace) has returned nil, a WorkflowOperationEvent call
\* records exactly one observation of value 1 on the operation counter, tagged
\* {app_id: appID, component, namespace: namespace, operation, status}, then, for
\* elapsed > 0, exactly one observation of value elapsed on the operation latency
\* with the same tags, and nothing else.
C5_OperationEventRecords ==
    [][(Settled /\ ev.kind = "operation" /\ ev' # ev) =>
          /\ AddedOne
          /\ Added.tags = ExpectedOperationTags
          /\ ev.pc = "count" =>
                /\ Added.measure = "runtime/workflow/operation/count"
                /\ Added.value = 1
                /\ ev.elapsed > 0 => (ev'.pc = "latency" /\ ev'.elapsed = ev.elapsed)
          /\ ev.pc = "latency" =>
                /\ Added.measure = "runtime/workflow/operation/latency"
                /\ Added.value = ev.elapsed
                /\ ev'.pc = "idle"]_vars

\* Init("a1", "ns1") returned nil and one WorkflowOperationEvent(create_workflow,
\* dapr, success, 5) has recorded its count and its latency
C5_Witness ==
    /\ Settled
    /\ nInits = 1
    /\ ev.pc = "idle"
    /\ Len(recorded) = 2
    /\ recorded[1].measure = workflowOperationCount
    /\ recorded[2].measure = workflowOperationLatency
    /\ recorded[2].value = 5
    /\ recorded[1].tags = recorded[2].tags
    /\ recorded[1].tags["app_id"] = "a1"
    /\ recorded[1].tags["namespace"] = "ns1"
    /\ recorded[1].tags["operation"] = "create_workflow"
    /\ recorded[1].tags["status"] = "success"

C7_ExecutionEventRecords ==
    [][(ev.kind = "execution" /\ ev' # ev) =>
          /\ AddedOne
          /\ Settled => Added.tags = ExpectedExecutionTags
          /\ ev.pc = "count" =>
                /\ Added.measure = "runtime/workflow/execution/count"
                /\ Added.value = 1
                /\ ev'.pc = IF ev.elapsed > 0 THEN "latency" ELSE "idle"
          /\ ev.pc = "latency" =>
                /\ ev.elapsed > 0
                /\ Added.measure = "runtime/workflow/execution/latency"
                /\ Added.value = ev.elapsed
                /\ ev'.pc = "idle"]_vars

\* Init returned nil and one ExecutionEvent(dapr, activity, failed, elapsed <= 0)
\* has returned: one count on the execution counter and no latency
C7_Witness ==
    /\ Settled
    /\ ev.pc = "idle"
    /\ issued.execution.calls = 1
    /\ Len(recorded) = 1
    /\ recorded[1].measure = workflowExecutionCount
    /\ recorded[1].value = 1
    /\ recorded[1].tags["execution_type"] = "activity"
    /\ recorded[1].tags["status"] = "failed"
    /\ recorded[1].tags["component"] = "dapr"

\* C8: once Init has returned nil and enabled is true, every later step of any
\* Init or event call leaves enabled true and leaves appID and namespace unchanged.
C8_EnabledIsTerminalAndFrozen ==
    [][(w.enabled /\ initResult.err = "nil") =>
          (w'.enabled /\ w'.appID = w.appID /\ w'.namespace = w.namespace)]_vars

\* C9: an Init call with the parameters of the Init call that returned before it
\* leaves appID, namespace and enabled as they were and either leaves the
\* registered views as they were or returns an error.
C9_SecondInitSameParams ==
    [][(/\ init.pc # "idle"
        /\ init.variant = "monitoring"
        /\ initResult.err # "none"
        /\ init.appID = initResult.appID
        /\ init.namespace = initResult.namespace) =>
          /\ w' = w
          /\ (views' = views \/ initResult'.err = "err")]_vars

\* a second Init with the parameters of the first, which returned nil, has made
\* its stores
C9_Witness ==
    /\ init.pc = "store"
    /\ init.variant = "monitoring"
    /\ init.pending = {}
    /\ initResult.err = "nil"
    /\ init.appID = initResult.appID
    /\ init.namespace = initResult.namespace
    /\ nInits = 2

\* C10: the tag keys of every observation include the tag keys of the view Init
\* registers for the observation's measure, and of every view registered under
\* that name.
C10_TagKeysCoverView ==
    \A i \in DOMAIN recorded :
        /\ \E v \in WorkflowViews :
              v.name = recorded[i].measure /\ v.keys \subseteq DOMAIN recorded[i].tags
        /\ \A v \in views :
              v.name = recorded[i].measure => v.keys \subseteq DOMAIN recorded[i].tags

\* Init has registered its views and an event call has recorded count and latency
C10_Witness ==
    /\ WorkflowViews \subseteq views
    /\ Len(recorded) = 2
    /\ recorded[2].measure \in {workflowOperationLatency, workflowExecutionLatency}

====
